---------------------------- MODULE Spec2Model ----------------------------
(***************************************************************************)
(* A model of utils/header_files_gen/RMA_X.py, the generator of the        *)
(* header rocshmem_RMA_X.hpp.                                              *)
(*                                                                         *)
(* Text.  A Python string is modelled as the sequence of its lines, that   *)
(* is as s.split("\n"): a non-empty sequence of strings without line       *)
(* breaks whose last element is the text after the last line break ("" for *)
(* a string that ends with a line break).  The empty string is <<"">>.     *)
(* Inside a line the characters are those of the source, so names are      *)
(* built by the same concatenations as the f-strings build them.           *)
(***************************************************************************)
EXTENDS Integers, Sequences, FiniteSets

VARIABLES
    pc,             \* the position of the run: "idle", "generate_RMA_X_header",
                    \* "write_to_file", "opened", "with_exit"
    output_dir,     \* generate_RMA_X_header's argument output_dir
    copyright,      \* generate_RMA_X_header's argument copyright (a text)
    expanded_code,  \* generate_RMA_X_header's local expanded_code (a text)
    output_file,    \* generate_RMA_X_header's local output_file (a path)
    fs,             \* the file system: path |-> the file's text, or NoFile
    origin,         \* path |-> the banner of the run that last wrote the file in full, or NoBanner
    handle,         \* the file object of write_to_file: "none", "open", "closed"
    exc,            \* the exception in flight or raised by the last call: "none", "OSError"
    result,         \* how the last call ended: "none", "returned", "raised"
    api,            \* the declaration template applied ("put", "get", "put_nbi", "get_nbi")
    args,           \* its arguments <<GRAN, T, TNAME>>
    unit            \* the text it returned, or NoUnit before it is applied

vars == << pc, output_dir, copyright, expanded_code, output_file, fs, origin,
           handle, exc, result, api, args, unit >>

---------------------------------------------------------------------------
(* Python strings as texts *)

\* The empty string.
EmptyText == << "" >>

\* String concatenation a + b: the last line of a continues with the first of b.
Cat(a, b) ==
    SubSeq(a, 1, Len(a) - 1) \o << a[Len(a)] \o b[1] >> \o Tail(b)

---------------------------------------------------------------------------
(* The axis tables *)

\* The table of element types: (canonical spelling, short name).
types ==
    << << "float", "float" >>,
       << "double", "double" >>,
       << "char", "char" >>,
       << "signed char", "schar" >>,
       << "short", "short" >>,
       << "int", "int" >>,
       << "long", "long" >>,
       << "long long", "longlong" >>,
       << "unsigned char", "uchar" >>,
       << "unsigned short", "ushort" >>,
       << "unsigned int", "uint" >>,
       << "unsigned long", "ulong" >>,
       << "unsigned long long", "ulonglong" >> >>

---------------------------------------------------------------------------
(* The declaration templates: one f-string each, ending with "\n\n" *)

put_api_x(GRAN, T, TNAME) ==
    << "__device__ ATTR_NO_INLINE void rocshmem_ctx_" \o TNAME \o "_put_" \o GRAN \o "(",
       "    rocshmem_ctx_t ctx, " \o T \o " *dest, const " \o T \o " *source,",
       "    size_t nelems, int pe);",
       "__device__ ATTR_NO_INLINE void rocshmem_" \o TNAME \o "_put_" \o GRAN \o "(",
       "    " \o T \o " *dest, const " \o T \o " *source, size_t nelems, int pe);",
       "",
       "" >>

get_api_x(GRAN, T, TNAME) ==
    << "__device__ ATTR_NO_INLINE void rocshmem_ctx_" \o TNAME \o "_get_" \o GRAN \o "(",
       "    rocshmem_ctx_t ctx, " \o T \o " *dest, const " \o T \o " *source,",
       "    size_t nelems, int pe);",
       "__device__ ATTR_NO_INLINE void rocshmem_" \o TNAME \o "_get_" \o GRAN \o "(",
       "    " \o T \o " *dest, const " \o T \o " *source, size_t nelems, int pe);",
       "",
       "" >>

\* put_nbi_api_x copied from put_api_x with the name fragment left as it was.
put_nbi_api_x_named_put(GRAN, T, TNAME) ==
    << "__device__ ATTR_NO_INLINE void rocshmem_ctx_" \o TNAME \o "_put_" \o GRAN \o "(",
       "    rocshmem_ctx_t ctx, " \o T \o " *dest, const " \o T \o " *source,",
       "    size_t nelems, int pe);",
       "__device__ ATTR_NO_INLINE void rocshmem_" \o TNAME \o "_put_" \o GRAN \o "(",
       "    " \o T \o " *dest, const " \o T \o " *source, size_t nelems, int pe);",
       "",
       "" >>

put_nbi_api_x(GRAN, T, TNAME) ==
    << "__device__ ATTR_NO_INLINE void rocshmem_ctx_" \o TNAME \o "_put_nbi_" \o GRAN \o "(",
       "    rocshmem_ctx_t ctx, " \o T \o " *dest, const " \o T \o " *source,",
       "    size_t nelems, int pe);",
       "__device__ ATTR_NO_INLINE void rocshmem_" \o TNAME \o "_put_nbi_" \o GRAN \o "(",
       "    " \o T \o " *dest, const " \o T \o " *source, size_t nelems, int pe);",
       "",
       "" >>

\* get_nbi_api_x with TNAME where the second prototype wants T.
get_nbi_api_x_short_name_as_type(GRAN, T, TNAME) ==
    << "__device__ ATTR_NO_INLINE void rocshmem_ctx_" \o TNAME \o "_get_nbi_" \o GRAN \o "(",
       "    rocshmem_ctx_t ctx, " \o T \o " *dest, const " \o T \o " *source,",
       "    size_t nelems, int pe);",
       "__device__ ATTR_NO_INLINE void rocshmem_" \o TNAME \o "_get_nbi_" \o GRAN \o "(",
       "    " \o TNAME \o " *dest, const " \o TNAME \o " *source, size_t nelems, int pe);",
       "",
       "" >>

get_nbi_api_x(GRAN, T, TNAME) ==
    << "__device__ ATTR_NO_INLINE void rocshmem_ctx_" \o TNAME \o "_get_nbi_" \o GRAN \o "(",
       "    rocshmem_ctx_t ctx, " \o T \o " *dest, const " \o T \o " *source,",
       "    size_t nelems, int pe);",
       "__device__ ATTR_NO_INLINE void rocshmem_" \o TNAME \o "_get_nbi_" \o GRAN \o "(",
       "    " \o T \o " *dest, const " \o T \o " *source, size_t nelems, int pe);",
       "",
       "" >>

---------------------------------------------------------------------------
(* The documentation comments of the family blocks *)

\* The documentation comment that opens the wave part of generate_put_api_x
\* (RMA_X.py lines 55-74), one string per line of text.
put_wave_doc ==
    << "",
       "/**",
       " * @brief Writes contiguous data of \\p nelems elements from \\p source on the",
       " * calling PE to \\p dest at \\p pe. The caller will block until the operation",
       " * completes locally (it is safe to reuse \\p source). The caller must",
       " * call into rocshmem_quiet() if remote completion is required.",
       " *",
       " * This function can be called from divergent control paths at per-wave",
       " * granularity. However, all threads in a wave must collectively participate",
       " * in the call using the same arguments",
       " *",
       " * @param[in] ctx    Context with which to perform this operation.",
       " * @param[in] dest   Destination address. Must be an address on the symmetric",
       " *                   heap.",
       " * @param[in] source Source address. Must be an address on the symmetric heap.",
       " * @param[in] nelems Size of the transfer in number of elements.",
       " * @param[in] pe     PE of the remote process.",
       " *",
       " * @return void.",
       " */",
       "" >>

\* The documentation comment that opens the wg part of generate_put_api_x
\* (RMA_X.py lines 78-97), one string per line of text.
put_wg_doc ==
    << "",
       "/**",
       " * @brief Writes contiguous data of \\p nelems elements from \\p source on the",
       " * calling PE to \\p dest at \\p pe. The caller will block until the operation",
       " * completes locally (it is safe to reuse \\p source). The caller must",
       " * call into rocshmem_quiet() if remote completion is required.",
       " *",
       " * This function can be called from divergent control paths at per-workgroup",
       " * (WG) granularity. However, All threads in a WG must collectively participate",
       " * in the call using the same arguments.",
       " *",
       " * @param[in] ctx    Context with which to perform this operation.",
       " * @param[in] dest   Destination address. Must be an address on the symmetric",
       " *                   heap.",
       " * @param[in] source Source address. Must be an address on the symmetric heap.",
       " * @param[in] nelems Size of the transfer in number of elements.",
       " * @param[in] pe     PE of the remote process.",
       " *",
       " * @return void.",
       " */",
       "" >>

\* The documentation comment that opens the wave part of generate_get_api_x
\* (RMA_X.py lines 115-133), one string per line of text.
get_wave_doc ==
    << "",
       "/**",
       " * @brief Reads contiguous data of \\p nelems elements from \\p source on \\p pe",
       " * to \\p dest on the calling PE. The calling work-group will block until the",
       " * operation completes (data has been placed in \\p dest).",
       " *",
       " * This function can be called from divergent control paths at per-wave",
       " * granularity. However,  all threads in the wave must participate in the",
       " * call using the same parameters",
       " *",
       " * @param[in] ctx     Context with which to perform this operation.",
       " * @param[in] dest    Destination address. Must be an address on the symmetric",
       " *                    heap.",
       " * @param[in] source  Source address. Must be an address on the symmetric heap.",
       " * @param[in] nelems  Size of the transfer in bytes.",
       " * @param[in] pe      PE of the remote process.",
       " *",
       " * @return void.",
       " */",
       "" >>

\* The documentation comment that opens the wg part of generate_get_api_x
\* (RMA_X.py lines 137-155), one string per line of text.
get_wg_doc ==
    << "",
       "/**",
       " * @brief Reads contiguous data of \\p nelems elements from \\p source on \\p pe",
       " * to \\p dest on the calling PE. The calling work-group will block until the",
       " * operation completes (data has been placed in \\p dest).",
       " *",
       " * This function can be called from divergent control paths at per-workgroup",
       " * granularity. However,  all threads in the workgroup must participate in",
       " * the call using the same parameters",
       " *",
       " * @param[in] ctx     Context with which to perform this operation.",
       " * @param[in] dest    Destination address. Must be an address on the symmetric",
       " *                    heap.",
       " * @param[in] source  Source address. Must be an address on the symmetric heap.",
       " * @param[in] nelems  Size of the transfer in bytes.",
       " * @param[in] pe      PE of the remote process.",
       " *",
       " * @return void.",
       " */",
       "" >>

\* The documentation comment that opens the wave part of generate_put_nbi_api_x
\* (RMA_X.py lines 173-193), one string per line of text.
put_nbi_wave_doc ==
    << "",
       "/**",
       " * @brief Writes contiguous data of \\p nelems elements from \\p source on the",
       " * calling PE to \\p dest on \\p pe. The operation is not blocking. The caller",
       " * will return as soon as the request is posted. The caller must call",
       " * rocshmem_quiet() on the same context if completion notification is",
       " * required.",
       " *",
       " * This function can be called from divergent control paths at per-wave",
       " * granularity. However, all threads in the wave must call in with the same",
       " * arguments.",
       " *",
       " * @param[in] ctx     Context with which to perform this operation.",
       " * @param[in] dest    Destination address. Must be an address on the symmetric",
       "                      heap.",
       " * @param[in] source  Source address. Must be an address on the symmetric heap.",
       " * @param[in] nelems  Size of the transfer in bytes.",
       " * @param[in] pe      PE of the remote process.",
       " *",
       " * @return void.",
       " */",
       "" >>

\* The documentation comment that opens the wg part of generate_put_nbi_api_x
\* (RMA_X.py lines 197-217), one string per line of text.
put_nbi_wg_doc ==
    << "",
       "/**",
       " * @brief Writes contiguous data of \\p nelems elements from \\p source on the",
       " * calling PE to \\p dest on \\p pe. The operation is not blocking. The caller",
       " * will return as soon as the request is posted. The caller must call",
       " * rocshmem_quiet() on the same context if completion notification is",
       " * required.",
       " *",
       " * This function can be called from divergent control paths at per-workgroup",
       " * granularity. However, all threads in the WG must call in with the sameo",
       " * arguments.",
       " *",
       " * @param[in] ctx     Context with which to perform this operation.",
       " * @param[in] dest    Destination address. Must be an address on the symmetric",
       "                      heap.",
       " * @param[in] source  Source address. Must be an address on the symmetric heap.",
       " * @param[in] nelems  Size of the transfer in bytes.",
       " * @param[in] pe      PE of the remote process.",
       " *",
       " * @return void.",
       " */",
       "" >>

\* The documentation comment that opens the wave part of generate_get_nbi_api_x
\* (RMA_X.py lines 235-255), one string per line of text.
get_nbi_wave_doc ==
    << "",
       "/**",
       " * @brief Reads contiguous data of \\p nelems elements from \\p source on \\p pe",
       " * to \\p dest on the calling PE. The operation is not blocking. The caller",
       " * will return as soon as the request is posted. The caller must call",
       " * rocshmem_quiet() on the same context if completion notification is",
       " * required.",
       " *",
       " * This function can be called from divergent control paths at per-wave",
       " * granularity. However, all threads in the wave must call in with the same",
       " * arguments.",
       " *",
       " * @param[in] ctx     Context with which to perform this operation.",
       " * @param[in] dest    Destination address. Must be an address on the symmetric",
       " *                    heap.",
       " * @param[in] source  Source address. Must be an address on the symmetric heap.",
       " * @param[in] nelems  Size of the transfer in bytes.",
       " * @param[in] pe      PE of the remote process.",
       " *",
       " * @return void.",
       " */",
       "" >>

\* The documentation comment that opens the wg part of generate_get_nbi_api_x
\* (RMA_X.py lines 259-279), one string per line of text.
get_nbi_wg_doc ==
    << "",
       "/**",
       " * @brief Reads contiguous data of \\p nelems elements from \\p source on \\p pe",
       " * to \\p dest on the calling PE. The operation is not blocking. The caller",
       " * will return as soon as the request is posted. The caller must call",
       " * rocshmem_quiet() on the same context if completion notification is",
       " * required.",
       " *",
       " * This function can be called from divergent control paths at per-workgroup",
       " * granularity. However, all threads in the WG must call in with the same",
       " * arguments.",
       " *",
       " * @param[in] ctx     Context with which to perform this operation.",
       " * @param[in] dest    Destination address. Must be an address on the symmetric",
       " *                    heap.",
       " * @param[in] source  Source address. Must be an address on the symmetric heap.",
       " * @param[in] nelems  Size of the transfer in bytes.",
       " * @param[in] pe      PE of the remote process.",
       " *",
       " * @return void.",
       " */",
       "" >>

---------------------------------------------------------------------------
(* The family block builders *)

\* for type_, tname_ in types: expanded_code += put_api_x(GRAN, type_, tname_)
put_for_types(GRAN, code) ==
    LET loop[i \in 0..Len(types)] ==
            IF i = 0 THEN code
            ELSE Cat(loop[i - 1], put_api_x(GRAN, types[i][1], types[i][2]))
    IN  loop[Len(types)]

\* generate_put_api_x with the second loop left at "wave".
generate_put_api_x_wave_twice ==
    put_for_types("wave", Cat(put_for_types("wave", put_wave_doc), put_wg_doc))

generate_put_api_x ==
    put_for_types("wg", Cat(put_for_types("wave", put_wave_doc), put_wg_doc))

\* for type_, tname_ in types: expanded_code += get_api_x(GRAN, type_, tname_)
get_for_types(GRAN, code) ==
    LET loop[i \in 0..Len(types)] ==
            IF i = 0 THEN code
            ELSE Cat(loop[i - 1], get_api_x(GRAN, types[i][1], types[i][2]))
    IN  loop[Len(types)]

\* generate_get_api_x with the two loops in the other order.
generate_get_api_x_wg_first ==
    get_for_types("wave", Cat(get_for_types("wg", get_wave_doc), get_wg_doc))

generate_get_api_x ==
    get_for_types("wg", Cat(get_for_types("wave", get_wave_doc), get_wg_doc))

\* for type_, tname_ in types: expanded_code += put_nbi_api_x(GRAN, type_, tname_)
put_nbi_for_types(GRAN, code) ==
    LET loop[i \in 0..Len(types)] ==
            IF i = 0 THEN code
            ELSE Cat(loop[i - 1], put_nbi_api_x(GRAN, types[i][1], types[i][2]))
    IN  loop[Len(types)]

generate_put_nbi_api_x ==
    put_nbi_for_types("wg",
        Cat(put_nbi_for_types("wave", put_nbi_wave_doc), put_nbi_wg_doc))

\* for type_, tname_ in types: expanded_code += get_nbi_api_x(GRAN, type_, tname_)
get_nbi_for_types(GRAN, code) ==
    LET loop[i \in 0..Len(types)] ==
            IF i = 0 THEN code
            ELSE Cat(loop[i - 1], get_nbi_api_x(GRAN, types[i][1], types[i][2]))
    IN  loop[Len(types)]

\* generate_get_nbi_api_x without its second loop.
generate_get_nbi_api_x_wave_only ==
    Cat(get_nbi_for_types("wave", get_nbi_wave_doc), get_nbi_wg_doc)

generate_get_nbi_api_x ==
    get_nbi_for_types("wg",
        Cat(get_nbi_for_types("wave", get_nbi_wave_doc), get_nbi_wg_doc))

---------------------------------------------------------------------------
(* The document assembler *)

\* The literal that opens the include guard and the namespace.
guard_open ==
    << "",
       "#ifndef LIBRARY_INCLUDE_ROCSHMEM_RMA_X_HPP",
       "#define LIBRARY_INCLUDE_ROCSHMEM_RMA_X_HPP",
       "",
       "namespace rocshmem {",
       "" >>

\* The literal that closes the namespace and the include guard.
guard_close ==
    << "",
       "}  // namespace rocshmem",
       "",
       "#endif  // LIBRARY_INCLUDE_ROCSHMEM_RMA_X_HPP",
       "" >>

\* The four family blocks, concatenated in the order of the source.
family_blocks ==
    Cat(Cat(Cat(generate_put_api_x, generate_get_api_x),
            generate_put_nbi_api_x),
        generate_get_nbi_api_x)

\* A text without the line breaks that end it.
RECURSIVE RStrip(_)
RStrip(text) ==
    IF Len(text) > 1 /\ text[Len(text)] = ""
    THEN RStrip(SubSeq(text, 1, Len(text) - 1))
    ELSE text

\* assemble with the family blocks added after the closing literal.
assemble_blocks_after_close(dir, banner) ==
    Cat(Cat(Cat(banner, guard_open), guard_close), family_blocks)

\* assemble with a line that names the output directory.
assemble_naming_dir(dir, banner) ==
    Cat(Cat(Cat(Cat(banner, guard_open), << "// generated in " \o dir, "" >>),
            family_blocks),
        guard_close)

\* assemble with the banner stripped of the line breaks that end it.
assemble_stripped_banner(dir, banner) ==
    Cat(Cat(Cat(RStrip(banner), guard_open), family_blocks), guard_close)

\* The value of expanded_code when write_to_file is called.
assemble(dir, banner) ==
    Cat(Cat(Cat(banner, guard_open), family_blocks), guard_close)

---------------------------------------------------------------------------
(* The emitter and its environment *)

\* The fixed name of the generated file.
FileName == "rocshmem_RMA_X.hpp"

\* Whether string s ends with string e.
EndsWith(s, e) ==
    Len(s) >= Len(e) /\ SubSeq(s, Len(s) - Len(e) + 1, Len(s)) = e

\* os.path.join(dir, name) for a relative name.
join(dir, name) ==
    IF dir = "" \/ EndsWith(dir, "/") THEN dir \o name ELSE dir \o "/" \o name

\* The marks of an absent file, of a file no run wrote in full, of a template
\* not yet applied.  None of them is a text: a text has at least one line.
NoFile == << >>
NoBanner == << >>
NoUnit == << >>

\* The directories a caller passes: two that exist and are writable (one named
\* with its trailing separator), and one that does not exist.
WritableDirs == { "out", "build/gen/" }
MissingDirs == { "missing" }
Dirs == WritableDirs \cup MissingDirs

\* The files of the writable directories: the generated file of each, and a
\* neighbour the generator has no business with.
OutFiles == { "out/rocshmem_RMA_X.hpp", "build/gen/rocshmem_RMA_X.hpp" }
Neighbour == "out/rocshmem_RMA.hpp"
Files == OutFiles \cup { Neighbour }

\* What a file holds before the first run, when it exists.
OldText == << "// an earlier header", "#pragma once", "" >>

\* The lines banners are made of: a comment, and lines of the kinds the
\* generator itself writes (a guard line, a namespace line, a prototype).
BannerComment == "/* Copyright (c) 2024 Advanced Micro Devices, Inc. */"
BannerEndif == "#endif  // LIBRARY_INCLUDE_ROCSHMEM_RMA_X_HPP"
BannerNamespace == "namespace rocshmem {"
BannerPrototype ==
    "__device__ ATTR_NO_INLINE void rocshmem_int_put_wave(int *dest, const int *source, size_t nelems, int pe);"
BannerLines == { BannerComment, BannerEndif, BannerNamespace, BannerPrototype }

\* The banners the callers of the runs pass: none, a comment without and one
\* with a final line break, and lines pasted from a header.
BannerOneLine == << BannerComment >>
BannerBlock ==
    << "/*",
       " * Copyright (c) 2024 Advanced Micro Devices, Inc. All rights reserved.",
       " */",
       "" >>
BannerPasted == << BannerPrototype, BannerEndif, "" >>
Banners == { EmptyText, BannerOneLine, BannerBlock, BannerPasted }

\* The number of places at which a failing write may stop.
Cuts == 2

\* The first n lines of a text, each with its line break.
Lines(text, n) == SubSeq(text, 1, n) \o << "" >>

\* What a write that fails may leave of content in the file: nothing, or the
\* lines up to one of the cut places.
Truncations(content) ==
    { Lines(content, (i * (Len(content) - 1)) \div Cuts) : i \in 0..(Cuts - 1) }

---------------------------------------------------------------------------
(* The run: generate_RMA_X_header(output_dir, copyright) *)

Init ==
    /\ pc = "idle"
    /\ output_dir = ""
    /\ copyright = EmptyText
    /\ expanded_code = EmptyText
    /\ output_file = ""
    /\ fs \in { f \in [Files -> { NoFile, OldText }] : f[Neighbour] = OldText }
    /\ origin = [p \in Files |-> NoBanner]
    /\ handle = "none"
    /\ exc = "none"
    /\ result = "none"
    /\ api = "none"
    /\ args = << >>
    /\ unit = NoUnit

\* A caller calls generate_RMA_X_header(dir, banner).
Call(dir, banner) ==
    /\ pc = "idle"
    /\ output_dir' = dir
    /\ copyright' = banner
    /\ expanded_code' = EmptyText
    /\ output_file' = ""
    /\ handle' = "none"
    /\ exc' = "none"
    /\ result' = "none"
    /\ pc' = "generate_RMA_X_header"
    /\ UNCHANGED << fs, origin, api, args, unit >>

\* The body of generate_RMA_X_header up to the call of write_to_file: the
\* document is assembled and the path of the output file is built.
Assemble ==
    /\ pc = "generate_RMA_X_header"
    /\ expanded_code' = assemble(output_dir, copyright)
    /\ output_file' = join(output_dir, FileName)
    /\ pc' = "write_to_file"
    /\ UNCHANGED << output_dir, copyright, fs, origin, handle, exc, result,
                    api, args, unit >>

\* open(filename, 'a'): the file is created, or kept as it is.
OpenAppend ==
    /\ pc = "write_to_file"
    /\ output_file \in Files
    /\ fs' = [fs EXCEPT ![output_file] = IF @ = NoFile THEN EmptyText ELSE @]
    /\ origin' = [origin EXCEPT ![output_file] = NoBanner]
    /\ handle' = "open"
    /\ pc' = "opened"
    /\ UNCHANGED << output_dir, copyright, expanded_code, output_file, exc,
                    result, api, args, unit >>

\* open(filename, 'w') succeeds: the file is created, or cut to nothing.
Open ==
    /\ pc = "write_to_file"
    /\ output_file \in Files
    /\ fs' = [fs EXCEPT ![output_file] = EmptyText]
    /\ origin' = [origin EXCEPT ![output_file] = NoBanner]
    /\ handle' = "open"
    /\ pc' = "opened"
    /\ UNCHANGED << output_dir, copyright, expanded_code, output_file, exc,
                    result, api, args, unit >>

\* open(filename, 'w') raises (no such directory, no permission): nothing is
\* opened, the exception leaves write_to_file and generate_RMA_X_header.
OpenFail ==
    /\ pc = "write_to_file"
    /\ exc' = "OSError"
    /\ result' = "raised"
    /\ pc' = "idle"
    /\ UNCHANGED << output_dir, copyright, expanded_code, output_file, fs,
                    origin, handle, api, args, unit >>

\* file.write(content) writes the whole content at the end of what the file
\* holds since it was opened.
Write ==
    /\ pc = "opened"
    /\ fs' = [fs EXCEPT ![output_file] = Cat(fs[output_file], expanded_code)]
    /\ pc' = "with_exit"
    /\ UNCHANGED << output_dir, copyright, expanded_code, output_file, origin,
                    handle, exc, result, api, args, unit >>

\* The write raises (the disk is full): a part of the content is in the file.
WriteFail ==
    /\ pc = "opened"
    /\ \E part \in Truncations(expanded_code) :
           fs' = [fs EXCEPT ![output_file] = Cat(fs[output_file], part)]
    /\ exc' = "OSError"
    /\ pc' = "with_exit"
    /\ UNCHANGED << output_dir, copyright, expanded_code, output_file, origin,
                    handle, result, api, args, unit >>

\* The end of the with statement after a write that succeeded: the file is
\* closed, write_to_file and generate_RMA_X_header return.
ExitReturn ==
    /\ pc = "with_exit"
    /\ exc = "none"
    /\ handle' = "closed"
    /\ origin' = [origin EXCEPT ![output_file] = copyright]
    /\ result' = "returned"
    /\ pc' = "idle"
    /\ UNCHANGED << output_dir, copyright, expanded_code, output_file, fs,
                    exc, api, args, unit >>

\* The exception leaves a write_to_file that has no with statement: the file
\* stays open.
ExitRaise_without_close ==
    /\ pc = "with_exit"
    /\ exc # "none"
    /\ result' = "raised"
    /\ pc' = "idle"
    /\ UNCHANGED << output_dir, copyright, expanded_code, output_file, fs,
                    origin, handle, exc, api, args, unit >>

\* The end of the with statement with an exception in flight: the file is
\* closed and the exception goes on to the caller.
ExitRaise ==
    /\ pc = "with_exit"
    /\ exc # "none"
    /\ handle' = "closed"
    /\ result' = "raised"
    /\ pc' = "idle"
    /\ UNCHANGED << output_dir, copyright, expanded_code, output_file, fs,
                    origin, exc, api, args, unit >>

Next ==
    \/ \E dir \in Dirs, banner \in Banners : Call(dir, banner)
    \/ Assemble
    \/ Open
    \/ OpenFail
    \/ Write
    \/ WriteFail
    \/ ExitReturn
    \/ ExitRaise

Spec == Init /\ [][Next]_vars

---------------------------------------------------------------------------
(* The document assembler on its own: one call, for any banner *)

\* The longest banner drawn, in lines.
MaxBannerLines == 2

\* The banners of up to MaxBannerLines lines, with and without a line break
\* after the last line.
BannerTexts ==
    LET seqs == UNION { [1..n -> BannerLines] : n \in 1..MaxBannerLines }
    IN  { EmptyText } \cup seqs \cup { s \o << "" >> : s \in seqs }

InitAssemble ==
    /\ pc = "generate_RMA_X_header"
    /\ output_dir \in Dirs
    /\ copyright \in BannerTexts
    /\ expanded_code = EmptyText
    /\ output_file = ""
    /\ fs = [p \in Files |-> NoFile]
    /\ origin = [p \in Files |-> NoBanner]
    /\ handle = "none"
    /\ exc = "none"
    /\ result = "none"
    /\ api = "none"
    /\ args = << >>
    /\ unit = NoUnit

SpecAssemble == InitAssemble /\ [][Assemble]_vars

---------------------------------------------------------------------------
(* The declaration templates on their own: one call of one template *)

\* The granularity tags and the operation families of the generator.
Grans == << "wave", "wg" >>
Families == << "put", "get", "put_nbi", "get_nbi" >>

\* The argument triples the family block builders pass to a template.
TemplateArgs ==
    { << Grans[g], types[i][1], types[i][2] >> : g \in 1..Len(Grans), i \in 1..Len(types) }

InitTemplate ==
    /\ pc = "idle"
    /\ output_dir = ""
    /\ copyright = EmptyText
    /\ expanded_code = EmptyText
    /\ output_file = ""
    /\ fs = [p \in Files |-> NoFile]
    /\ origin = [p \in Files |-> NoBanner]
    /\ handle = "none"
    /\ exc = "none"
    /\ result = "none"
    /\ api \in { Families[f] : f \in 1..Len(Families) }
    /\ args \in TemplateArgs
    /\ unit = NoUnit

CallPutApiX ==
    /\ api = "put"
    /\ unit = NoUnit
    /\ unit' = put_api_x(args[1], args[2], args[3])
    /\ UNCHANGED << pc, output_dir, copyright, expanded_code, output_file, fs,
                    origin, handle, exc, result, api, args >>

CallGetApiX ==
    /\ api = "get"
    /\ unit = NoUnit
    /\ unit' = get_api_x(args[1], args[2], args[3])
    /\ UNCHANGED << pc, output_dir, copyright, expanded_code, output_file, fs,
                    origin, handle, exc, result, api, args >>

CallPutNbiApiX ==
    /\ api = "put_nbi"
    /\ unit = NoUnit
    /\ unit' = put_nbi_api_x(args[1], args[2], args[3])
    /\ UNCHANGED << pc, output_dir, copyright, expanded_code, output_file, fs,
                    origin, handle, exc, result, api, args >>

CallGetNbiApiX ==
    /\ api = "get_nbi"
    /\ unit = NoUnit
    /\ unit' = get_nbi_api_x(args[1], args[2], args[3])
    /\ UNCHANGED << pc, output_dir, copyright, expanded_code, output_file, fs,
                    origin, handle, exc, result, api, args >>

NextTemplate ==
    \/ CallPutApiX
    \/ CallGetApiX
    \/ CallPutNbiApiX
    \/ CallGetNbiApiX

SpecTemplate == InitTemplate /\ [][NextTemplate]_vars

---------------------------------------------------------------------------
(* Reading a generated text *)

\* Whether string s starts with string p.
StartsWith(s, p) == Len(s) >= Len(p) /\ SubSeq(s, 1, Len(p)) = p

\* A string without its leading blanks.
RECURSIVE LStrip(_)
LStrip(s) == IF Len(s) > 0 /\ Head(s) = " " THEN LStrip(Tail(s)) ELSE s

\* What every generated prototype starts with: a device function, never
\* inlined, returning void.
ProtoPrefix == "__device__ ATTR_NO_INLINE void "

\* The lines of a text at which a prototype starts, in order.
ProtoStarts(text) ==
    SelectSeq([i \in 1..Len(text) |-> i],
              LAMBDA i : StartsWith(text[i], ProtoPrefix))

\* The line at which the prototype that starts at line i ends: the first
\* one from i on that ends with a semicolon (the last line if none does).
RECURSIVE ProtoEnd(_, _)
ProtoEnd(text, i) ==
    IF i >= Len(text) \/ EndsWith(text[i], ";") THEN i
    ELSE ProtoEnd(text, i + 1)

\* Lines joined into one, C's way of reading them: the indentation of a line
\* is dropped and a line break counts as one blank, or as nothing after "(".
RECURSIVE OneLine(_)
OneLine(lines) ==
    IF Len(lines) = 1 THEN LStrip(lines[1])
    ELSE LET first == LStrip(lines[1])
         IN  first \o (IF EndsWith(first, "(") THEN "" ELSE " ")
                   \o OneLine(Tail(lines))

\* The prototypes of a text, in order, each on one line.
Prototypes(text) ==
    LET starts == ProtoStarts(text)
    IN  [n \in 1..Len(starts) |->
            OneLine(SubSeq(text, starts[n], ProtoEnd(text, starts[n])))]

\* The lines of a text that belong to no prototype.
OtherLines(text) ==
    LET starts == ProtoStarts(text)
        inside == UNION { starts[n]..ProtoEnd(text, starts[n]) : n \in 1..Len(starts) }
    IN  SelectSeq([i \in 1..Len(text) |-> i], LAMBDA i : i \notin inside)

\* The place of the first "(" of a string from place k on (0 if there is none).
RECURSIVE ParenFrom(_, _)
ParenFrom(s, k) ==
    IF k > Len(s) THEN 0
    ELSE IF SubSeq(s, k, k) = "(" THEN k
    ELSE ParenFrom(s, k + 1)

OpenParen(s) == ParenFrom(s, 1)

\* The name a one-line prototype declares, and its parameter list.
DeclaredName(proto) ==
    SubSeq(proto, Len(ProtoPrefix) + 1, OpenParen(proto) - 1)
Parameters(proto) ==
    SubSeq(proto, OpenParen(proto) + 1, Len(proto) - 2)

\* The names a text declares, in order.
DeclaredNames(text) ==
    LET ps == Prototypes(text)
    IN  [n \in 1..Len(ps) |-> DeclaredName(ps[n])]

\* How many times a sequence holds a value.
Count(seq, v) == Cardinality({ n \in 1..Len(seq) : seq[n] = v })

---------------------------------------------------------------------------
(* The naming convention and the declaration template of the specification *)

\* The symbol names of a triple: context-qualified and default-context.
CtxName(family, gran, shortName) ==
    "rocshmem_ctx_" \o shortName \o "_" \o family \o "_" \o gran
DefaultName(family, gran, shortName) ==
    "rocshmem_" \o shortName \o "_" \o family \o "_" \o gran

\* The two prototypes of a triple, each on one line.
CtxPrototype(family, gran, T, shortName) ==
    "__device__ ATTR_NO_INLINE void " \o CtxName(family, gran, shortName)
        \o "(rocshmem_ctx_t ctx, " \o T \o " *dest, const " \o T
        \o " *source, size_t nelems, int pe);"
DefaultPrototype(family, gran, T, shortName) ==
    "__device__ ATTR_NO_INLINE void " \o DefaultName(family, gran, shortName)
        \o "(" \o T \o " *dest, const " \o T
        \o " *source, size_t nelems, int pe);"

\* The template a family's block builder calls, applied to one triple.
Declaration(family, a) ==
    CASE family = "put" -> put_api_x(a[1], a[2], a[3])
      [] family = "get" -> get_api_x(a[1], a[2], a[3])
      [] family = "put_nbi" -> put_nbi_api_x(a[1], a[2], a[3])
      [] family = "get_nbi" -> get_nbi_api_x(a[1], a[2], a[3])

\* A template has been applied (SpecTemplate).
Applied == unit # NoUnit

---------------------------------------------------------------------------
(* C4 - Declaration template.  The unit a template returns for a triple    *)
(* holds exactly two prototypes and nothing else but empty lines: the      *)
(* context-qualified one and the default-context one of the triple, with   *)
(* the canonical spelling of the triple's type for dest and source in      *)
(* both; the parameters of the second are those of the first without the   *)
(* context handle; both return void.  Prototypes are compared on one line, *)
(* as C reads them.                                                        *)
C4_DeclarationTemplate ==
    Applied =>
        LET ps == Prototypes(unit)
            other == OtherLines(unit)
        IN  /\ Len(ps) = 2
            /\ ps[1] = CtxPrototype(api, args[1], args[2], args[3])
            /\ ps[2] = DefaultPrototype(api, args[1], args[2], args[3])
            /\ Parameters(ps[1]) = "rocshmem_ctx_t ctx, " \o Parameters(ps[2])
            /\ \A n \in 1..Len(other) : unit[other[n]] = ""

\* The scenario of the specification: (int, put, wave).
C4_Witness ==
    /\ Applied
    /\ api = "put"
    /\ args = << "wave", "int", "int" >>
    /\ Prototypes(unit) =
         << "__device__ ATTR_NO_INLINE void rocshmem_ctx_int_put_wave(rocshmem_ctx_t ctx, int *dest, const int *source, size_t nelems, int pe);",
            "__device__ ATTR_NO_INLINE void rocshmem_int_put_wave(int *dest, const int *source, size_t nelems, int pe);" >>

---------------------------------------------------------------------------
(* C5 - Naming injectivity.  The two names a triple's declaration unit     *)
(* declares differ from each other and from both names of every other      *)
(* triple of the cross product of the 4 families, 2 granularities and 13   *)
(* types: no two triples share a name, and no context-qualified name is a  *)
(* default-context name.                                                   *)
C5_NamingInjective ==
    Applied =>
        LET mine == DeclaredNames(unit)
        IN  /\ Len(mine) = 2
            /\ mine[1] # mine[2]
            /\ \A f \in 1..Len(Families) : \A a \in TemplateArgs :
                   << Families[f], a >> # << api, args >> =>
                       LET theirs == DeclaredNames(Declaration(Families[f], a))
                       IN  /\ Len(theirs) = 2
                           /\ { mine[1], mine[2] } \cap { theirs[1], theirs[2] } = {}

\* A triple of a family whose fragment contains another family's.
C5_Witness ==
    /\ Applied
    /\ api = "put_nbi"
    /\ args = << "wg", "unsigned int", "uint" >>
    /\ DeclaredNames(unit) =
         << "rocshmem_ctx_uint_put_nbi_wg", "rocshmem_uint_put_nbi_wg" >>

---------------------------------------------------------------------------
(* The document of a run *)

\* expanded_code holds the document of the call under way, or of the last
\* call, and copyright its banner.
Assembled == pc \in { "write_to_file", "opened", "with_exit" } \/ result # "none"

\* Whether text a is a prefix of text d, character for character.
IsPrefix(a, d) ==
    /\ Len(a) <= Len(d)
    /\ \A i \in 1..(Len(a) - 1) : d[i] = a[i]
    /\ StartsWith(d[Len(a)], a[Len(a)])

\* What follows prefix a in text d: Cat(a, Rest(a, d)) = d.
Rest(a, d) ==
    << SubSeq(d[Len(a)], Len(a[Len(a)]) + 1, Len(d[Len(a)])) >>
        \o SubSeq(d, Len(a) + 1, Len(d))

\* The text the generator adds to the banner.
Generated == Rest(copyright, expanded_code)

\* The lines of a text that start with p.
LinesWith(text, p) == { i \in 1..Len(text) : StartsWith(text[i], p) }

\* The triples of the cross product: family, granularity and type entry.
Triples ==
    { << Families[f], Grans[g], types[i] >> :
          f \in 1..Len(Families), g \in 1..Len(Grans), i \in 1..Len(types) }

\* The two names of a triple.
NamesOf(t) ==
    { CtxName(t[1], t[2], t[3][2]), DefaultName(t[1], t[2], t[3][2]) }

---------------------------------------------------------------------------
\* The names of the cross product.
ExpectedNames == UNION { NamesOf(t) : t \in Triples }

\* Every value of set S is in the sequence, exactly once.
EachOnce(seq, S) ==
    LET hits == SelectSeq(seq, LAMBDA x : x \in S)
    IN  /\ { hits[n] : n \in 1..Len(hits) } = S
        /\ Len(hits) = Cardinality(S)

(* C1 - Completeness.  As claimed: for every triple, the document declares *)
(* the context-qualified and the default-context name, each exactly once   *)
(* in the whole output.                                                    *)
C1_OnceInOutput ==
    Assembled => EachOnce(DeclaredNames(expanded_code), ExpectedNames)

(* C1, amended.  For every triple, the text the generator adds after the   *)
(* banner declares both names, each exactly once; so does the whole        *)
(* output when the banner declares none of the names.                      *)
C1_OnceInGenerated ==
    Assembled =>
        LET inBanner == DeclaredNames(copyright)
        IN  /\ EachOnce(DeclaredNames(Generated), ExpectedNames)
            /\ Cardinality(ExpectedNames) = 2 * Cardinality(Triples)
            /\ (\A n \in 1..Len(inBanner) : inBanner[n] \notin ExpectedNames)
                   => EachOnce(DeclaredNames(expanded_code), ExpectedNames)

\* A document whose banner declares a name of the cross product.
C1_Witness ==
    /\ pc = "write_to_file"
    /\ copyright = << BannerComment, BannerPrototype >>
    /\ Count(DeclaredNames(Generated), "rocshmem_int_put_wave") = 1
    /\ Count(DeclaredNames(Generated), "rocshmem_ctx_ulonglong_get_nbi_wg") = 1
    /\ Count(DeclaredNames(expanded_code), "rocshmem_int_put_wave") = 2

---------------------------------------------------------------------------
\* The place of a declared name in that order: 2 * (family - 1) + granularity,
\* read from the end of the name (0 for a name of no family).
Rank(name) ==
    LET fits == { << f, g >> \in (1..Len(Families)) \X (1..Len(Grans)) :
                      EndsWith(name, "_" \o Families[f] \o "_" \o Grans[g]) }
    IN  IF fits = {} THEN 0
        ELSE LET fg == CHOOSE x \in fits : TRUE IN 2 * (fg[1] - 1) + fg[2]

(* C2 - Ordering.  In the text the generator adds, the declarations come   *)
(* family by family in the order put, get, put_nbi, get_nbi, and inside a  *)
(* family every per-wave declaration, of all 13 types, comes before every  *)
(* per-workgroup declaration.                                              *)
C2_Ordering ==
    Assembled =>
        LET names == DeclaredNames(Generated)
            rank == [n \in 1..Len(names) |-> Rank(names[n])]
        IN  /\ \A n \in 1..Len(rank) : rank[n] >= 1
            /\ \A n \in 1..(Len(rank) - 1) : rank[n] <= rank[n + 1]
            /\ \A r \in 1..(Len(Families) * Len(Grans)) :
                   Count(rank, r) = 2 * Len(types)

\* The last per-wave declaration of put is followed by the first
\* per-workgroup one, the last declaration of put by the first of get.
C2_Witness ==
    /\ pc = "write_to_file"
    /\ LET names == DeclaredNames(Generated)
       IN  /\ names[26] = "rocshmem_ulonglong_put_wave"
           /\ names[27] = "rocshmem_ctx_float_put_wg"
           /\ names[52] = "rocshmem_ulonglong_put_wg"
           /\ names[53] = "rocshmem_ctx_float_get_wave"

---------------------------------------------------------------------------
(* C3 - Structure.  A text is well formed when it holds one include-guard  *)
(* open (#ifndef and #define of LIBRARY_INCLUDE_ROCSHMEM_RMA_X_HPP, on     *)
(* consecutive lines), one #endif, one namespace open "namespace rocshmem  *)
(* {" and one closing brace line, nested as guard open, namespace open,    *)
(* all prototypes, namespace close, guard close.                           *)
WellFormed(text) ==
    LET ifs == LinesWith(text, "#if")
        defines == LinesWith(text, "#define")
        endifs == LinesWith(text, "#endif")
        opens == LinesWith(text, "namespace")
        closes == LinesWith(text, "}")
        starts == ProtoStarts(text)
    IN  /\ Cardinality(ifs) = 1
        /\ Cardinality(defines) = 1
        /\ Cardinality(endifs) = 1
        /\ Cardinality(opens) = 1
        /\ Cardinality(closes) = 1
        /\ \A i \in ifs : \A d \in defines : \A o \in opens :
           \A c \in closes : \A e \in endifs :
               /\ text[i] = "#ifndef LIBRARY_INCLUDE_ROCSHMEM_RMA_X_HPP"
               /\ text[d] = "#define LIBRARY_INCLUDE_ROCSHMEM_RMA_X_HPP"
               /\ text[o] = "namespace rocshmem {"
               /\ d = i + 1
               /\ d < o /\ o < c /\ c < e
               /\ \A n \in 1..Len(starts) :
                      o < starts[n] /\ ProtoEnd(text, starts[n]) < c

\* A banner without preprocessor lines, namespace lines, closing brace lines
\* and prototypes.
Plain(banner) ==
    \A i \in 1..Len(banner) :
        /\ ~StartsWith(banner[i], "#")
        /\ ~StartsWith(banner[i], "namespace")
        /\ ~StartsWith(banner[i], "}")
        /\ ~StartsWith(banner[i], ProtoPrefix)

(* C3, as claimed: the document is well formed for any banner.             *)
C3_WellFormedAnyBanner == Assembled => WellFormed(expanded_code)

(* C3, amended.  For any banner, the empty one included, the text the      *)
(* generator adds after the banner is well formed; the whole document is   *)
(* well formed for any banner that itself holds no preprocessor line, no   *)
(* namespace line, no closing brace line and no prototype, the empty       *)
(* banner included.                                                        *)
C3_WellFormedGenerated ==
    Assembled =>
        /\ WellFormed(Generated)
        /\ Plain(copyright) => WellFormed(expanded_code)

\* The document of the empty banner.
C3_Witness ==
    /\ pc = "write_to_file"
    /\ copyright = EmptyText
    /\ expanded_code[1] = ""
    /\ expanded_code[2] = "#ifndef LIBRARY_INCLUDE_ROCSHMEM_RMA_X_HPP"
    /\ WellFormed(expanded_code)

---------------------------------------------------------------------------
(* C6 - Declaration count, as claimed: the document holds exactly 208      *)
(* function prototypes for every banner.                                   *)
C6_Exactly208 == Assembled => Len(Prototypes(expanded_code)) = 208

(* C6, amended.  For every banner, the text the generator adds after the   *)
(* banner holds exactly 208 function prototypes (4 families x 2            *)
(* granularities x 13 types x 2 symbol forms); the whole document holds    *)
(* these and the prototypes of the banner, so exactly 208 when the banner  *)
(* holds none.                                                             *)
C6_Generated208 ==
    Assembled =>
        /\ Len(Prototypes(Generated)) = 208
        /\ Len(Prototypes(Generated)) =
               Len(Families) * Len(Grans) * Len(types) * 2
        /\ Len(Prototypes(expanded_code)) = 208 + Len(Prototypes(copyright))

\* A document whose banner holds two prototypes.
C6_Witness ==
    /\ pc = "write_to_file"
    /\ copyright = << BannerPrototype, BannerPrototype, "" >>
    /\ Len(Prototypes(Generated)) = 208
    /\ Len(Prototypes(expanded_code)) = 210

---------------------------------------------------------------------------
(* C8 - Banner pass-through.  The document starts with the banner,         *)
(* character for character; what follows starts with the line break and    *)
(* the two lines that open the include guard; and what follows is the same *)
(* text for every banner: that of every file a run wrote in full.          *)
C8_BannerPassThrough ==
    Assembled =>
        /\ IsPrefix(copyright, expanded_code)
        /\ Cat(copyright, Generated) = expanded_code
        /\ IsPrefix(<< "",
                       "#ifndef LIBRARY_INCLUDE_ROCSHMEM_RMA_X_HPP",
                       "#define LIBRARY_INCLUDE_ROCSHMEM_RMA_X_HPP",
                       "" >>, Generated)
        /\ \A p \in Files :
               origin[p] # NoBanner =>
                   /\ IsPrefix(origin[p], fs[p])
                   /\ Rest(origin[p], fs[p]) = Generated

\* A banner that ends with a line break, after a run with another banner.
C8_Witness ==
    /\ pc = "write_to_file"
    /\ copyright = BannerBlock
    /\ \E p \in Files : origin[p] = BannerOneLine
    /\ expanded_code[3] = " */"
    /\ expanded_code[5] = "#ifndef LIBRARY_INCLUDE_ROCSHMEM_RMA_X_HPP"

---------------------------------------------------------------------------
(* The files of the runs *)

\* The file a run with output directory dir is to write.
Target(dir) ==
    CASE dir = "out" -> "out/rocshmem_RMA_X.hpp"
      [] dir = "build/gen/" -> "build/gen/rocshmem_RMA_X.hpp"
      [] OTHER -> "missing/rocshmem_RMA_X.hpp"

\* The last call returned to its caller without an exception.
Returned == pc = "idle" /\ result = "returned"

---------------------------------------------------------------------------
(* C7 - Determinism.  Runs with the same banner make the same document,    *)
(* whatever their output directory and whatever ran before: two files      *)
(* written in full by runs with the same banner hold the same text, and    *)
(* the document of a run is the text of every file an earlier run with the *)
(* same banner wrote in full.                                              *)
C7_Deterministic ==
    /\ \A p, q \in Files :
           (origin[p] # NoBanner /\ origin[p] = origin[q]) => fs[p] = fs[q]
    /\ Assembled =>
           \A p \in Files : origin[p] = copyright => fs[p] = expanded_code

\* Two runs with the same banner and different output directories, and a
\* third under way.
C7_Witness ==
    /\ pc = "write_to_file"
    /\ copyright = BannerBlock
    /\ origin["out/rocshmem_RMA_X.hpp"] = BannerBlock
    /\ origin["build/gen/rocshmem_RMA_X.hpp"] = BannerBlock
    /\ fs["out/rocshmem_RMA_X.hpp"] = fs["build/gen/rocshmem_RMA_X.hpp"]

---------------------------------------------------------------------------
(* C9 - Overwrite.  After a run that returned, the file rocshmem_RMA_X.hpp *)
(* of its output directory holds exactly the document of the run, whatever *)
(* it held before; a run with the banner of the run that last wrote the    *)
(* file in full finds in it what it is about to write, so the second run   *)
(* leaves what the first left; and no step of a run changes another file.  *)
C9_Overwrite ==
    /\ [](Returned => fs[Target(output_dir)] = expanded_code)
    /\ []((pc = "write_to_file" /\ output_dir \in WritableDirs
              /\ origin[Target(output_dir)] = copyright)
             => fs[Target(output_dir)] = expanded_code)
    /\ [][\A p \in Files : fs'[p] # fs[p] => p = Target(output_dir)]_vars

\* A run returned; the file of the other directory holds the document of a
\* run with another banner.
C9_Witness ==
    /\ Returned
    /\ output_dir = "build/gen/"
    /\ copyright = BannerOneLine
    /\ fs["build/gen/rocshmem_RMA_X.hpp"] = expanded_code
    /\ origin["out/rocshmem_RMA_X.hpp"] = BannerPasted
    /\ fs[Neighbour] = OldText

---------------------------------------------------------------------------
(* C10 - I/O failure.  A call in which the open or the write raised ends   *)
(* raising to its caller, never returning; a call that returned wrote the  *)
(* whole document.  Once the exception is in flight the call does nothing  *)
(* but end: no second open or write, and no file is changed, so what a     *)
(* failed write left stays.  The file object is open only inside the with  *)
(* statement: it is closed on every way out, that of a failed write        *)
(* included.                                                               *)
C10_FailureSurfaces ==
    /\ []((pc = "idle" /\ exc # "none") => result = "raised")
    /\ [](Returned => (exc = "none" /\ fs[output_file] = expanded_code))
    /\ [](handle = "open" => pc \in { "opened", "with_exit" })
    /\ [][(exc # "none" /\ pc # "idle") => (pc' = "idle" /\ fs' = fs)]_vars
    /\ [][(exc' # "none" /\ exc = "none" /\ pc' = "idle") => fs' = fs]_vars

\* A write failed half way: the call raised, the file object is closed and
\* the file holds a part of the document.
C10_Witness ==
    /\ pc = "idle"
    /\ result = "raised"
    /\ exc = "OSError"
    /\ handle = "closed"
    /\ Len(fs[output_file]) > 1
    /\ fs[output_file] # expanded_code
    /\ IsPrefix(SubSeq(fs[output_file], 1, Len(fs[output_file]) - 1), expanded_code)

====
